---- MODULE Spec2Model ----
(***************************************************************************)
(* A model of the file finder "edit": the pattern matcher and traversal    *)
(* engine (search.go), the streaming result channel (searchIter) and the   *)
(* interactive picker (picker, runPicker).                                  *)
(*                                                                          *)
(* Go strings are sequences of one-character strings; a file-system path   *)
(* is the sequence of its component names (filepath.Join appends a name),  *)
(* and PathStr gives its text.  Slice indices (filtered, selected, offset) *)
(* are 0-based as in the Go code; allResults[i] of the code is             *)
(* allResults[i + 1] here.                                                  *)
(***************************************************************************)
EXTENDS Integers, Sequences, FiniteSets, TLC

(***************************************************************************)
(* Bounds of the model.                                                     *)
(***************************************************************************)
\* Number of matching files that every populated directory of the tree holds.
FilesPerDir == 3
\* Longest filter string the user types.
MaxSearch == 2
\* Longest name matchWild is called with.
MaxName == 4
\* Longest query and longest path the legacy matcher is called with.
MaxQuery == 3
MaxPath == 3
\* The spinner has MaxSpin + 1 frames.
MaxSpin == 1

(***************************************************************************)
(* Strings.                                                                 *)
(***************************************************************************)
\* The characters of the model, in byte order (the order of Go's string <).
Alphabet == <<".", "/", "A", "B", "O", "a", "b", "c", "d", "o", "z">>

CharOrd(c) == CHOOSE i \in 1..Len(Alphabet) : Alphabet[i] = c

Min(a, b) == IF a < b THEN a ELSE b

\* s[i:] and s[:i] of Go, i counted from 0.
From(s, i) == SubSeq(s, i + 1, Len(s))
Upto(s, i) == SubSeq(s, 1, i)

HasPrefix(s, p) == Len(p) <= Len(s) /\ Upto(s, Len(p)) = p
HasSuffix(s, p) == Len(p) <= Len(s) /\ From(s, Len(s) - Len(p)) = p

\* strings.Index: the 0-based position of the first occurrence of sub, or -1.
Index(s, sub) ==
  LET hits == {i \in 0..(Len(s) - Len(sub)) : SubSeq(s, i + 1, i + Len(sub)) = sub}
  IN  IF hits = {} THEN -1 ELSE CHOOSE i \in hits : \A j \in hits : i <= j

Contains(s, sub) == Index(s, sub) >= 0

\* strings.Split for a non-empty separator.
RECURSIVE Split(_, _)
Split(s, sep) ==
  LET idx == Index(s, sep)
  IN  IF idx < 0 THEN <<s>>
      ELSE <<Upto(s, idx)>> \o Split(From(s, idx + Len(sep)), sep)

\* strings.ToLower on the model's alphabet.
LowerChar(c) == CASE c = "A" -> "a" [] c = "B" -> "b" [] c = "O" -> "o" [] OTHER -> c
ToLower(s) == [i \in 1..Len(s) |-> LowerChar(s[i])]

\* Go's s < t on strings: bytewise lexicographic order.
RECURSIVE StrLess(_, _)
StrLess(s, t) ==
  IF t = <<>> THEN FALSE
  ELSE IF s = <<>> THEN TRUE
  ELSE IF s[1] # t[1] THEN CharOrd(s[1]) < CharOrd(t[1])
  ELSE StrLess(Tail(s), Tail(t))

\* sort.Strings: ascending string order (insertion sort; the strings sorted
\* are distinct, so the result does not depend on the algorithm).
RECURSIVE InsertString(_, _)
InsertString(x, sorted) ==
  IF sorted = <<>> THEN <<x>>
  ELSE IF StrLess(x, Head(sorted)) THEN <<x>> \o sorted
  ELSE <<Head(sorted)>> \o InsertString(x, Tail(sorted))

RECURSIVE SortStrings(_)
SortStrings(xs) ==
  IF xs = <<>> THEN <<>> ELSE InsertString(Head(xs), SortStrings(Tail(xs)))

\* The elements of a set of strings as a sequence in string order.
RECURSIVE SetToSortedSeq(_)
SetToSortedSeq(S) ==
  IF S = {} THEN <<>>
  ELSE LET m == CHOOSE x \in S : \A y \in S : x = y \/ StrLess(x, y)
       IN  <<m>> \o SetToSortedSeq(S \ {m})

\* The wildcard / recursion marker "...".
Dots == <<".", ".", ".">>
Slash == <<"/">>

(***************************************************************************)
(* Pattern matching (search.go).                                            *)
(***************************************************************************)
\* Middle fragments must appear in order in rest (the loop of matchWild).
RECURSIVE MatchMiddle(_, _)
MatchMiddle(rest, mids) ==
  IF mids = <<>> THEN TRUE
  ELSE LET idx == Index(rest, Head(mids))
       IN  IF idx < 0 THEN FALSE
           ELSE MatchMiddle(From(rest, idx + Len(Head(mids))), Tail(mids))

\* A matchWild that looks for the last fragment at the end of the whole
\* name, where the first fragment may have been.
matchWildOverlap(pattern, name) ==
  LET parts == Split(pattern, Dots)
  IN  IF Len(parts) = 1 THEN pattern = name
      ELSE IF ~HasPrefix(name, parts[1]) THEN FALSE
      ELSE LET last == parts[Len(parts)]
           IN  IF ~HasSuffix(name, last) THEN FALSE
               ELSE MatchMiddle(SubSeq(name, Len(parts[1]) + 1, Len(name) - Len(last)),
                                SubSeq(parts, 2, Len(parts) - 1))

matchWild(pattern, name) ==
  LET parts == Split(pattern, Dots)
  IN  IF Len(parts) = 1 THEN pattern = name
      ELSE IF ~HasPrefix(name, parts[1]) THEN FALSE
      ELSE LET rest == From(name, Len(parts[1]))
               last == parts[Len(parts)]
           IN  IF ~HasSuffix(rest, last) THEN FALSE
               ELSE MatchMiddle(Upto(rest, Len(rest) - Len(last)),
                                SubSeq(parts, 2, Len(parts) - 1))

\* The fixed prefix of a pattern before the first "..." (the first result of
\* wildPrefix; its callers drop the second).
wildPrefix(pattern) ==
  LET idx == Index(pattern, Dots)
  IN  IF idx < 0 THEN pattern ELSE Upto(pattern, idx)

segWild == "segWild"
segRecursive == "segRecursive"

Seg(k, p) == [kind |-> k, pattern |-> p]

\* The loop of parsePattern: one segment per non-empty component.
RECURSIVE ParseParts(_)
ParseParts(parts) ==
  IF parts = <<>> THEN <<>>
  ELSE LET p == Head(parts)
       IN  IF p = <<>> THEN ParseParts(Tail(parts))
           ELSE IF p = Dots THEN <<Seg(segRecursive, <<>>)>> \o ParseParts(Tail(parts))
           ELSE <<Seg(segWild, p)>> \o ParseParts(Tail(parts))

\* A parsePattern without the implicit recursion before a leaf that starts
\* with "...".
parsePatternNoImplicit(pattern) ==
  LET s0 == ParseParts(Split(pattern, Slash))
  IN  IF s0 = <<>> THEN <<>>
      ELSE IF s0[Len(s0)].kind = segRecursive
           THEN Append(s0, Seg(segWild, Dots)) ELSE s0

\* parsePattern; <<>> stands for the "empty pattern" error.
parsePattern(pattern) ==
  LET s0 == ParseParts(Split(pattern, Slash))
  IN  IF s0 = <<>> THEN <<>>
      ELSE LET s1 == IF s0[Len(s0)].kind = segRecursive
                     THEN Append(s0, Seg(segWild, Dots)) ELSE s0
               last == Len(s1)
           IN  IF /\ s1[last].kind = segWild
                  /\ HasPrefix(s1[last].pattern, Dots)
                  /\ (last = 1 \/ s1[last - 1].kind # segRecursive)
               THEN Upto(s1, last - 1) \o <<Seg(segRecursive, <<>>), s1[last]>>
               ELSE s1

(***************************************************************************)
(* The file system the search runs on: a fixed tree.                       *)
(*                                                                          *)
(*   /d            the working directory and first root                    *)
(*   /d/a, /d/a/b  populated subdirectories                                *)
(*   /d/a/a        a directory whose listing fails, holding the file "ao"  *)
(*   /d/a/do       an empty directory whose name ends in "o"               *)
(*   /d/c          a directory holding only the file "c"                   *)
(*   /d/.a         a hidden directory holding the file "Ao"                *)
(*   /d/.o         a hidden file                                           *)
(*   /z            a root that does not exist                              *)
(*   /b            the last root, populated                                *)
(*   /b/z          a directory whose listing fails (permission denied)     *)
(*                                                                          *)
(* Every populated directory holds the first FilesPerDir names of FilePool. *)
(***************************************************************************)
FilePool == << <<"b", "o">>, <<"A", "o">>, <<"a", "o">>, <<"B", "o">>, <<"c", "o">> >>

FileNames == {FilePool[i] : i \in 1..Min(FilesPerDir, Len(FilePool))}

PopulatedDirs == { << <<"d">> >>, << <<"d">>, <<"a">> >>,
                   << <<"d">>, <<"a">>, <<"b">> >>, << <<"b">> >> }

Dirs == PopulatedDirs \cup
        { << <<"d">>, <<"a">>, <<"d", "o">> >>, << <<"d">>, <<"c">> >>,
          << <<"d">>, <<".", "a">> >>, << <<"b">>, <<"z">> >>,
          << <<"d">>, <<"a">>, <<"a">> >> }

Files == {Append(d, n) : d \in PopulatedDirs, n \in FileNames} \cup
         { << <<"d">>, <<"c">>, <<"c">> >>, << <<"d">>, <<".", "a">>, <<"A", "o">> >>,
           << <<"d">>, <<".", "o">> >>,
           << <<"d">>, <<"a">>, <<"a">>, <<"a", "o">> >> }

\* Directories whose listing fails.
Unreadable == { << <<"b">>, <<"z">> >>, << <<"d">>, <<"a">>, <<"a">> >> }

Roots == << << <<"d">> >>, << <<"z">> >>, << <<"b">> >> >>

\* os.Getwd.
Pwd == << <<"d">> >>

\* os.Stat: "dir", "file", or "err" when the path does not exist.
Stat(path) == IF path \in Dirs THEN "dir" ELSE IF path \in Files THEN "file" ELSE "err"

\* Modification time of a file: later names of FilePool are newer.
ModTime(path) == CHOOSE i \in 1..Len(FilePool) : FilePool[i] = path[Len(path)]

ReadDirFails(base) == base \notin Dirs \/ base \in Unreadable

\* os.ReadDir: the entries of base, sorted by name.
ReadDir(base) ==
  SetToSortedSeq({q[Len(q)] : q \in {x \in Dirs \cup Files :
                                      Len(x) = Len(base) + 1 /\ Upto(x, Len(base)) = base}})

\* filepath.Join(base, name) for a name that is one path component.
Join(base, name) == Append(base, name)

\* The text of a sequence of components joined by "/".
RECURSIVE JoinNames(_)
JoinNames(names) ==
  IF names = <<>> THEN <<>>
  ELSE IF Len(names) = 1 THEN names[1]
  ELSE names[1] \o Slash \o JoinNames(Tail(names))

\* The text of an absolute path.
PathStr(path) == Slash \o JoinNames(path)

\* listDirs: sorted names of the non-hidden directories in base.
listDirs(base) ==
  IF ReadDirFails(base) THEN <<>>
  ELSE LET IsVisibleDir(n) == Stat(Join(base, n)) = "dir" /\ ~HasPrefix(n, <<".">>)
       IN  SortStrings(SelectSeq(ReadDir(base), IsVisibleDir))

\* The loop of the wildcard branch of matchSegments: the names of the
\* directories in base that the segment pattern selects, in listing order.
WildDirs(base, pattern) ==
  LET prefix == wildPrefix(pattern)
      Keep(n) == /\ Stat(Join(base, n)) = "dir"
                 /\ ~HasPrefix(n, <<".">>)
                 /\ ~(prefix # <<>> /\ ~HasPrefix(n, prefix))
                 /\ matchWild(pattern, n)
  IN  SelectSeq(ReadDir(base), Keep)

\* The first loop of the wildcard branch of matchLeaf: the matching files.
WildFiles(base, pattern) ==
  LET prefix == wildPrefix(pattern)
      Keep(n) == /\ Stat(Join(base, n)) # "dir"
                 /\ ~HasPrefix(n, <<".">>)
                 /\ ~(prefix # <<>> /\ ~HasPrefix(n, prefix))
                 /\ matchWild(pattern, n)
      names == SelectSeq(ReadDir(base), Keep)
  IN  [i \in 1..Len(names) |-> Join(base, names[i])]

\* The comparison of a descending sort.
PathGreater(p, q) == StrLess(PathStr(q), PathStr(p))

PathLess(p, q) == StrLess(PathStr(p), PathStr(q))

\* sort.Strings(files).
RECURSIVE InsertPath(_, _)
InsertPath(x, sorted) ==
  IF sorted = <<>> THEN <<x>>
  ELSE IF PathLess(x, Head(sorted)) THEN <<x>> \o sorted
  ELSE <<Head(sorted)>> \o InsertPath(x, Tail(sorted))

RECURSIVE SortPaths(_)
SortPaths(xs) ==
  IF xs = <<>> THEN <<>> ELSE InsertPath(Head(xs), SortPaths(Tail(xs)))

\* sortByMtime(files): newest first (the files of one directory have distinct
\* modification times and their stat succeeds).
RECURSIVE InsertNewest(_, _)
InsertNewest(x, sorted) ==
  IF sorted = <<>> THEN <<x>>
  ELSE IF ModTime(x) > ModTime(Head(sorted)) THEN <<x>> \o sorted
  ELSE <<Head(sorted)>> \o InsertNewest(x, Tail(sorted))

RECURSIVE sortByMtime(_)
sortByMtime(xs) ==
  IF xs = <<>> THEN <<>> ELSE InsertNewest(Head(xs), sortByMtime(Tail(xs)))

\* The raw patterns the client searches for:
\*   ...o   a/bo   .../b/...   ...a/A...   z   ...   .o   .a/A...   .../...
Patterns ==
  { Dots \o <<"o">>,
    <<"a", "/", "b", "o">>,
    Dots \o <<"/", "b", "/">> \o Dots,
    Dots \o <<"a", "/", "A">> \o Dots,
    <<"z">>,
    Dots,
    <<".", "o">>,
    <<".", "a", "/", "A">> \o Dots,
    Dots \o <<"/">> \o Dots }

\* The patterns of the interactive sessions: ...o and z (which matches nothing).
SessionPatterns == { Dots \o <<"o">>, <<"z">> }

\* The compiled patterns of the model, and the patterns of their wildcard
\* segments.
AllSegments == {parsePattern(p) : p \in Patterns \cup SessionPatterns}
WildPatterns == UNION {{sg[i].pattern : i \in 1..Len(sg)} : sg \in AllSegments}

\* The file system does not change during a search: what listDirs and the
\* listing loops of matchSegments and matchLeaf find in each directory.
listDirsAt == [b \in Dirs |-> listDirs(b)]
wildDirsAt == [b \in Dirs, p \in WildPatterns |-> IF ReadDirFails(b) THEN <<>> ELSE WildDirs(b, p)]
leafFilesAt ==
  [b \in Dirs, p \in WildPatterns, byMtime \in BOOLEAN |->
     IF ReadDirFails(b) THEN <<>>
     ELSE IF byMtime THEN sortByMtime(WildFiles(b, p)) ELSE SortPaths(WildFiles(b, p))]

(***************************************************************************)
(* State.                                                                   *)
(***************************************************************************)
VARIABLES
  \* searchIter and its producer goroutine
  segments,     \* the compiled pattern the goroutine was started with
  sortMtime,    \* searchIter.sortByMtime
  stack,        \* the goroutine's call stack, innermost frame last
  ret,          \* the value a callee has just returned: "none", "true", "false"
  chBuf,        \* it.ch: the values buffered in the channel
  chClosed,     \* it.ch has been closed
  doneClosed,   \* it.done has been closed
  \* history of the channel
  emitted,      \* the paths for which emit returned true, in order
  received,     \* the paths the consumer received from it.ch, in order
  emitFailed,   \* some emit returned false
  \* the consumer: runPicker, or a client that loops on Next
  pc,           \* where the consumer is
  result,       \* what runPicker returned
  first,        \* runPicker's local first
  iterDone,     \* runPicker's local iterDone
  dsearch,      \* runPicker's local search
  keyCh,        \* runPicker's keyCh: the buffered key events
  reader,       \* the stdin reader goroutine: "off", "reading", "exited"
  lastOk,       \* the value the last call of setSearch returned
  lastArg,      \* the argument of the last call of setSearch: <<s>>, or <<>> before any
  \* the picker
  allResults, filtered, search, selected, offset, searching, spinFrame,
  \* the environment
  stdinTerminal, \* term.IsTerminal(fd): standard input is a terminal
  \* a call of one of the pure matchers, for the specifications that test them
  call

iterVars == <<segments, sortMtime, stack, ret, chBuf, chClosed, doneClosed,
              emitted, emitFailed>>
pickerVars == <<allResults, filtered, search, selected, offset, searching, spinFrame>>
driverVars == <<pc, result, first, iterDone, dsearch, keyCh, reader, lastOk, lastArg>>
envVars == <<stdinTerminal, call>>
vars == <<iterVars, received, driverVars, pickerVars, envVars>>

\* A channel with room for one path, as make(chan string, 1) would give.
ChCapBuffered == 0 + 1

\* make(chan string): the capacity of it.ch.
ChCap == 0

(***************************************************************************)
(* The producer goroutine of newSearchIter, as a stack machine.  A frame    *)
(* is one activation of the goroutine body ("go"), matchSegments or         *)
(* matchLeaf: its arguments, its position pc and the rest of the slice its  *)
(* loop ranges over.                                                         *)
(***************************************************************************)
Frame(fn, base, segs, at, todo) ==
  [fn |-> fn, base |-> base, segs |-> segs, pc |-> at, todo |-> todo]

Top == stack[Len(stack)]

\* The running frame moves to position at with loop remainder todo.
Goto(at, todo) ==
  stack' = [stack EXCEPT ![Len(stack)] = [@ EXCEPT !.pc = at, !.todo = todo]]

\* The running frame calls fn(base, segs) and will resume at position at.
Call(at, todo, fn, base, segs) ==
  /\ stack' = Append([stack EXCEPT ![Len(stack)] = [@ EXCEPT !.pc = at, !.todo = todo]],
                     Frame(fn, base, segs, "entry", <<>>))
  /\ ret' = "none"

\* The running frame returns v to its caller.
Return(v) ==
  /\ stack' = Upto(stack, Len(stack) - 1)
  /\ ret' = v

chanVars == <<chBuf, chClosed, doneClosed, emitted, emitFailed>>

\* What no step of the producer goroutine touches.
consumerVars == <<received, driverVars, pickerVars>>

\* A listing error that stops the walk as a cancellation does.
OnReadErrorAbort == "false"

\* if err != nil { return true }: what matchSegments and matchLeaf return
\* when os.ReadDir fails.
OnReadError == "true"

\* matchSegments going on with its loop whatever the callee returned.
CancelledIgnored == FALSE

\* if !it.matchSegments(...) { return false }: the callee was cancelled.
Cancelled == ret = "false"

\* The goroutine body returning after the first root it has searched.
GoReturnsAfterFirstRoot == ret # "none" \/ Top.todo = <<>>

\* The goroutine body returns: the walk was cancelled or the roots are done.
GoReturns == ret = "false" \/ Top.todo = <<>>

\* The goroutine body: the loop over the roots, and close(it.ch) on return.
GoLoop ==
  /\ stack # <<>> /\ Top.fn = "go"
  /\ IF GoReturns
     THEN /\ stack' = <<>>
          /\ ret' = "none"
          /\ chClosed' = TRUE
     ELSE /\ IF Stat(Head(Top.todo)) # "dir"
             THEN Goto("loop", Tail(Top.todo)) /\ ret' = "none"
             ELSE Call("loop", Tail(Top.todo), "matchSegments", Head(Top.todo), segments)
          /\ UNCHANGED chClosed
  /\ UNCHANGED <<envVars, segments, sortMtime, chBuf, doneClosed, emitted, emitFailed, consumerVars>>

\* matchSegments from its entry to its first call, loop or return.
SegsEntry ==
  /\ stack # <<>> /\ Top.fn = "matchSegments" /\ Top.pc = "entry"
  /\ LET base == Top.base
         segs == Top.segs
         seg  == segs[1]
         rest == Tail(segs)
     IN  IF Len(segs) = 0 THEN Return("true")
         ELSE IF Len(segs) = 1 THEN Call("tail", <<>>, "matchLeaf", base, segs)
         ELSE IF seg.kind = segRecursive
              THEN Call("recFirst", <<>>, "matchSegments", base, rest)
         ELSE IF ~Contains(seg.pattern, Dots)
              THEN IF Stat(Join(base, seg.pattern)) # "dir"
                   THEN Return("true")
                   ELSE Call("tail", <<>>, "matchSegments", Join(base, seg.pattern), rest)
         ELSE IF ReadDirFails(base) THEN Return(OnReadError)
         ELSE Goto("wildLoop", wildDirsAt[base, seg.pattern]) /\ ret' = "none"
  /\ UNCHANGED <<envVars, segments, sortMtime, chanVars, consumerVars>>

\* matchSegments after a callee returned, and the iterations of its loops.
SegsResume ==
  /\ stack # <<>> /\ Top.fn = "matchSegments" /\ Top.pc # "entry"
  /\ CASE Top.pc = "tail" -> Return(ret)
       [] Top.pc = "recFirst" ->
            IF Cancelled THEN Return("false")
            ELSE Goto("recLoop", listDirsAt[Top.base]) /\ ret' = "none"
       [] Top.pc = "recLoop" ->
            IF Cancelled THEN Return("false")
            ELSE IF Top.todo = <<>> THEN Return("true")
            ELSE Call("recLoop", Tail(Top.todo), "matchSegments",
                      Join(Top.base, Head(Top.todo)), Top.segs)
       [] Top.pc = "wildLoop" ->
            IF Cancelled THEN Return("false")
            ELSE IF Top.todo = <<>> THEN Return("true")
            ELSE Call("wildLoop", Tail(Top.todo), "matchSegments",
                      Join(Top.base, Head(Top.todo)), Tail(Top.segs))
  /\ UNCHANGED <<envVars, segments, sortMtime, chanVars, consumerVars>>

\* matchLeaf from its entry to its first emit or its return.
LeafEntry ==
  /\ stack # <<>> /\ Top.fn = "matchLeaf" /\ Top.pc = "entry"
  /\ LET base == Top.base
         seg  == Top.segs[1]
         files == leafFilesAt[base, seg.pattern, sortMtime]
     IN  IF seg.kind = segRecursive THEN Return("true")
         ELSE IF ~Contains(seg.pattern, Dots)
              THEN IF Stat(Join(base, seg.pattern)) # "file"
                   THEN Return("true")
                   ELSE Goto("emitTail", <<Join(base, seg.pattern)>>) /\ ret' = "none"
         ELSE IF ReadDirFails(base) THEN Return(OnReadError)
         ELSE IF Len(files) = 0 THEN Return("true")
         ELSE Goto("emitLoop", files) /\ ret' = "none"
  /\ UNCHANGED <<envVars, segments, sortMtime, chanVars, consumerVars>>

\* The producer is in emit(path): in the select on it.ch <- path and <-it.done.
InEmit ==
  /\ stack # <<>> /\ Top.fn = "matchLeaf"
  /\ Top.pc \in {"emitTail", "emitLoop"} /\ Top.todo # <<>>

\* The producer's move when emit(path) returned true: the exact leaf returns
\* it, the wildcard leaf goes on with its loop.
EmitAccepted ==
  /\ emitted' = Append(emitted, Head(Top.todo))
  /\ IF Top.pc = "emitTail" THEN Return("true")
     ELSE Goto("emitLoop", Tail(Top.todo)) /\ ret' = "none"

\* The cases of emit's select that are ready without a receiver: the send,
\* when the channel has room, and the receive from a closed it.done.
EmitReady == (IF Len(chBuf) < ChCap THEN {"send"} ELSE {}) \cup
             (IF doneClosed THEN {"done"} ELSE {})

\* emit completes without a receiver.
Emit ==
  /\ InEmit
  /\ \E c \in EmitReady :
       IF c = "send"
       THEN /\ chBuf' = Append(chBuf, Head(Top.todo))
            /\ EmitAccepted
            /\ UNCHANGED emitFailed
       ELSE /\ Return("false")
            /\ emitFailed' = TRUE
            /\ UNCHANGED <<chBuf, emitted>>
  /\ UNCHANGED <<envVars, segments, sortMtime, chClosed, doneClosed, consumerVars>>

\* The end of matchLeaf's emit loop.
LeafDone ==
  /\ stack # <<>> /\ Top.fn = "matchLeaf" /\ Top.pc = "emitLoop" /\ Top.todo = <<>>
  /\ Return("true")
  /\ UNCHANGED <<envVars, segments, sortMtime, chanVars, consumerVars>>

\* A receive from it.ch is ready: a buffered value, a producer in emit, or
\* the channel closed.
CanRecv == chBuf # <<>> \/ InEmit \/ chClosed

\* The receive path, ok := <-it.ch when it is ready: the values received,
\* and what the receive does to the channel and to the producer it meets.
RecvOk == chBuf # <<>> \/ InEmit
RecvPath == IF chBuf # <<>> THEN Head(chBuf) ELSE IF InEmit THEN Head(Top.todo) ELSE <<>>

Recv ==
  /\ CanRecv
  /\ IF chBuf # <<>>
     THEN /\ chBuf' = Tail(chBuf)
          /\ received' = Append(received, Head(chBuf))
          /\ UNCHANGED <<stack, ret, emitted>>
     ELSE IF InEmit
     THEN /\ EmitAccepted
          /\ received' = Append(received, Head(Top.todo))
          /\ UNCHANGED chBuf
     ELSE UNCHANGED <<stack, ret, emitted, chBuf, received>>
  /\ UNCHANGED <<envVars, segments, sortMtime, chClosed, doneClosed, emitFailed>>

\* A Close that does not close it.done.
CloseForgotten == doneClosed' = doneClosed

\* searchIter.Close: close(it.done), once.
Close == doneClosed' = TRUE

\* newSearchIter(Roots, pattern, byMtime) for a pattern that compiles.
NewSearchIter(pattern, byMtime) ==
  /\ segments = parsePattern(pattern)
  /\ sortMtime = byMtime
  /\ stack = <<Frame("go", <<>>, <<>>, "loop", Roots)>>
  /\ ret = "none"
  /\ chBuf = <<>>
  /\ chClosed = FALSE
  /\ doneClosed = FALSE
  /\ emitted = <<>>
  /\ received = <<>>
  /\ emitFailed = FALSE

Producer == GoLoop \/ SegsEntry \/ SegsResume \/ LeafEntry \/ Emit \/ LeafDone

(***************************************************************************)
(* A client of the iterator that loops on Next until it returns more =     *)
(* false, and may call Close at any moment.                                 *)
(***************************************************************************)
\* What runPicker returned: the kind of return and the selected path.
Outcome(kind, sel) == [kind |-> kind, sel |-> sel]

\* The picker and the driver loop before runPicker has created them.
NoPicker ==
  /\ allResults = <<>> /\ filtered = <<>> /\ search = <<>>
  /\ selected = 0 /\ offset = 0 /\ searching = FALSE /\ spinFrame = 0

NoDriver ==
  /\ result = Outcome("none", <<>>) /\ first = <<>> /\ iterDone = FALSE
  /\ dsearch = <<>> /\ keyCh = <<>> /\ reader = "off"
  /\ lastOk = TRUE /\ lastArg = <<>>

\* No call of a pure matcher is under test.
NoCall == [fn |-> "none", a |-> <<>>, b |-> <<>>, result |-> "none"]

IterInit ==
  /\ \E pattern \in Patterns, byMtime \in BOOLEAN : NewSearchIter(pattern, byMtime)
  /\ pc = "next"
  /\ NoDriver /\ NoPicker
  /\ stdinTerminal = TRUE /\ call = NoCall

\* path, ok := it.Next() in the client's loop.
ClientNext ==
  /\ pc = "next"
  /\ Recv
  /\ pc' = IF RecvOk THEN "next" ELSE "end"
  /\ UNCHANGED <<result, first, iterDone, dsearch, keyCh, reader, lastOk, lastArg, pickerVars>>

\* it.Close() by the client.
ClientClose ==
  /\ pc \in {"next", "end"}
  /\ ~doneClosed
  /\ Close
  /\ UNCHANGED <<envVars, segments, sortMtime, stack, ret, chBuf, chClosed, emitted, emitFailed,
                 received, driverVars, pickerVars>>

IterNext ==
  \/ GoLoop \/ SegsEntry \/ SegsResume \/ LeafEntry \/ Emit \/ LeafDone
  \/ ClientNext \/ ClientClose

\* The Go scheduler runs a goroutine that can take a step: the producer is
\* never starved, and a client in Next receives when a value is ready.
IterSpec == IterInit /\ [][IterNext]_vars /\ WF_vars(Producer) /\ WF_vars(ClientNext)

(***************************************************************************)
(* What a traversal that is never cancelled emits: matchSegments and        *)
(* matchLeaf as functions from (base, segs) to the sequence of paths they   *)
(* pass to emit.                                                             *)
(***************************************************************************)
RECURSIVE Flatten(_)
Flatten(seqs) == IF seqs = <<>> THEN <<>> ELSE Head(seqs) \o Flatten(Tail(seqs))

LeafPaths(base, seg, byMtime) ==
  IF seg.kind = segRecursive THEN <<>>
  ELSE IF ~Contains(seg.pattern, Dots)
       THEN IF Stat(Join(base, seg.pattern)) # "file" THEN <<>>
            ELSE <<Join(base, seg.pattern)>>
  ELSE IF ReadDirFails(base) THEN <<>>
  ELSE LET files == WildFiles(base, seg.pattern)
       IN  IF byMtime THEN sortByMtime(files) ELSE SortPaths(files)

RECURSIVE SegsPaths(_, _, _)
SegsPaths(base, segs, byMtime) ==
  IF Len(segs) = 0 THEN <<>>
  ELSE IF Len(segs) = 1 THEN LeafPaths(base, segs[1], byMtime)
  ELSE LET seg  == segs[1]
           rest == Tail(segs)
       IN  IF seg.kind = segRecursive
           THEN LET dirs == listDirs(base)
                IN  SegsPaths(base, rest, byMtime) \o
                    Flatten([i \in 1..Len(dirs) |->
                               SegsPaths(Join(base, dirs[i]), segs, byMtime)])
           ELSE IF ~Contains(seg.pattern, Dots)
           THEN IF Stat(Join(base, seg.pattern)) # "dir" THEN <<>>
                ELSE SegsPaths(Join(base, seg.pattern), rest, byMtime)
           ELSE IF ReadDirFails(base) THEN <<>>
           ELSE LET dirs == WildDirs(base, seg.pattern)
                IN  Flatten([i \in 1..Len(dirs) |->
                               SegsPaths(Join(base, dirs[i]), rest, byMtime)])

\* All the paths the goroutine of newSearchIter emits, over all the roots.
AllPaths(segs, byMtime) ==
  Flatten([i \in 1..Len(Roots) |->
             IF Stat(Roots[i]) # "dir" THEN <<>> ELSE SegsPaths(Roots[i], segs, byMtime)])

\* AllPaths for every compiled pattern of the model.
allPathsOf == [sg \in AllSegments, byMtime \in BOOLEAN |-> AllPaths(sg, byMtime)]

(***************************************************************************)
(* The picker.                                                              *)
(***************************************************************************)
\* newPicker: maxVisible.
maxVisible == 10

\* filepath.Rel(Pwd, abs) for an absolute path: ".." for every component of
\* Pwd below the common prefix, then the rest of abs.
CommonLen(p, q) ==
  CHOOSE n \in 0..Min(Len(p), Len(q)) :
    /\ Upto(p, n) = Upto(q, n)
    /\ \A m \in (n + 1)..Min(Len(p), Len(q)) : Upto(p, m) # Upto(q, m)

Rel(abs) ==
  LET n == CommonLen(Pwd, abs)
      names == [i \in 1..(Len(Pwd) - n) |-> <<".", ".">>] \o From(abs, n)
  IN  IF names = <<>> THEN <<".">> ELSE JoinNames(names)

displayPath(abs) ==
  IF ~HasPrefix(Rel(abs), <<".", ".">>) THEN Rel(abs) ELSE PathStr(abs)

\* The file system does not change during a session: strings.ToLower of the
\* display path of every file.
lowerDisplayOf == [f \in Files |-> ToLower(displayPath(f))]

\* A matches that admits every path whatever the search is.
matchesAll(s, path) == TRUE

\* picker.matches, for the picker's search string s.
matches(s, path) ==
  IF s = <<>> THEN TRUE
  ELSE Contains(lowerDisplayOf[path], ToLower(s))

\* A result put in front of the list instead of at its end.
PrependResult(all, path) == <<path>> \o all

\* The append of addResult to allResults.
AppendResult(all, path) == Append(all, path)

\* picker.addResult.
addResult(path) ==
  /\ allResults' = AppendResult(allResults, path)
  /\ filtered' = IF matches(search, path)
                 THEN Append(filtered, Len(allResults')  - 1) ELSE filtered
  /\ UNCHANGED <<search, selected, offset, searching, spinFrame>>

\* picker.searchDone.
searchDone ==
  /\ searching' = FALSE
  /\ UNCHANGED <<allResults, filtered, search, selected, offset, spinFrame>>

\* The loop of setSearch: the indices of the results whose display path
\* contains s, whatever the case.
RECURSIVE FilterFrom(_, _, _)
FilterFrom(all, lower, i) ==
  IF i >= Len(all) THEN <<>>
  ELSE (IF Contains(lowerDisplayOf[all[i + 1]], lower) THEN <<i>> ELSE <<>>)
       \o FilterFrom(all, lower, i + 1)

\* A rebuildFiltered that appends to the old list instead of truncating it.
rebuildFilteredNoTruncate(all) == filtered \o [i \in 1..Len(all) |-> i - 1]

\* picker.rebuildFiltered: every index.
rebuildFiltered(all) == [i \in 1..Len(all) |-> i - 1]

\* clampOffset without its + 1: the window ends one row before selected.
clampOffsetShort(sel, off) ==
  LET o1 == IF sel < off THEN sel ELSE off
      o2 == IF sel > o1 + maxVisible THEN sel - maxVisible ELSE o1
  IN  IF o2 < 0 THEN 0 ELSE o2

\* picker.clampOffset, from the values of selected and offset to the new offset.
clampOffset(sel, off) ==
  LET o1 == IF sel < off THEN sel ELSE off
      o2 == IF sel >= o1 + maxVisible THEN sel - maxVisible + 1 ELSE o1
  IN  IF o2 < 0 THEN 0 ELSE o2

\* A rejection that does not look at searching.
RejectsWhileSearching(newFiltered, stillSearching) == Len(newFiltered) = 0

\* The test of setSearch that rejects a keystroke.
Rejects(newFiltered, stillSearching) == Len(newFiltered) = 0 /\ ~stillSearching

\* The value setSearch(s) returns.
setSearchOk(s) ==
  s = <<>> \/ ~Rejects(FilterFrom(allResults, ToLower(s), 0), searching)

\* picker.setSearch(s): what it does to the picker.
setSearch(s) ==
  /\ IF s # <<>>
     THEN IF Rejects(FilterFrom(allResults, ToLower(s), 0), searching)
          THEN UNCHANGED <<search, filtered, selected, offset>>
          ELSE /\ search' = s
               /\ filtered' = FilterFrom(allResults, ToLower(s), 0)
               /\ selected' = 0
               /\ offset' = clampOffset(0, 0)
     ELSE /\ search' = <<>>
          /\ filtered' = rebuildFiltered(allResults)
          /\ UNCHANGED selected
          /\ offset' = clampOffset(selected, 0)
  /\ UNCHANGED <<allResults, searching, spinFrame>>

\* The guards of moveUp and moveDown.
CanMoveUp == selected > 0

\* A moveDown that may step past the last row.
CanMoveDownPastEnd == selected < Len(filtered)

CanMoveDown == selected < Len(filtered) - 1

\* picker.moveUp.
moveUp ==
  /\ IF CanMoveUp
     THEN selected' = selected - 1 /\ offset' = clampOffset(selected - 1, offset)
     ELSE UNCHANGED <<selected, offset>>
  /\ UNCHANGED <<allResults, filtered, search, searching, spinFrame>>

\* picker.moveDown.
moveDown ==
  /\ IF CanMoveDown
     THEN selected' = selected + 1 /\ offset' = clampOffset(selected + 1, offset)
     ELSE UNCHANGED <<selected, offset>>
  /\ UNCHANGED <<allResults, filtered, search, searching, spinFrame>>

\* A getSelection that indexes allResults with selected, past the filter.
getSelectionUnfiltered ==
  IF Len(filtered) = 0 THEN <<>> ELSE allResults[selected + 1]

\* picker.getSelection; <<>> is the empty string.
getSelection ==
  IF Len(filtered) = 0 THEN <<>> ELSE allResults[filtered[selected + 1] + 1]

\* A wantMore that always asks for more.
wantMoreAlways == TRUE

\* picker.wantMore.
wantMore == selected + maxVisible >= Len(filtered)

\* picker.render: the rows of filtered that are drawn.
renderedRows == {i \in 0..(Len(filtered) - 1) : offset <= i /\ i < offset + maxVisible}

(***************************************************************************)
(* runPicker: the interactive session.                                      *)
(***************************************************************************)
\* make(chan keyEvent, 1): the capacity of keyCh.
KeyChCap == 1

\* The byte chunks the terminal delivers: Escape, Enter, the two backspaces,
\* Up, Down, the printable bytes of "A" and "z", and a chunk that no case of
\* the switch takes (Right).
Escape == <<27>>
Enter == <<13>>
Backspaces == {<<127>>, <<8>>}
Up == <<27, 91, 65>>
Down == <<27, 91, 66>>
Printables == {<<65>>, <<122>>}
Right == <<27, 91, 67>>
Chunks == {Escape, Enter, Up, Down, Right} \cup Backspaces \cup Printables

\* string(b[0]) for the printable bytes of the model.
Chr(b) == CASE b = 65 -> "A" [] b = 122 -> "z"

\* A key event: a chunk of bytes, or a read error.
KeyEvent(b, err) == [b |-> b, err |-> err]

\* The cases of the switch on the chunk b.
IsEscape(b) == Len(b) = 1 /\ b[1] = 27
IsEnter(b) == Len(b) = 1 /\ b[1] = 13
IsBackspace(b) == Len(b) = 1 /\ (b[1] = 127 \/ b[1] = 8)
IsUp(b) == Len(b) = 3 /\ b[1] = 27 /\ b[2] = 91 /\ b[3] = 65
IsDown(b) == Len(b) = 3 /\ b[1] = 27 /\ b[2] = 91 /\ b[3] = 66
IsPrintable(b) == Len(b) = 1 /\ b[1] >= 32 /\ b[1] < 127

Init ==
  /\ \E pattern \in SessionPatterns : NewSearchIter(pattern, FALSE)
  /\ pc = "first"
  /\ NoDriver /\ NoPicker
  /\ stdinTerminal \in BOOLEAN /\ call = NoCall

idleDriver == <<iterDone, dsearch, keyCh, reader, lastOk, lastArg>>

\* first, ok := iter.Next(), and the return when there is no match.
First ==
  /\ pc = "first"
  /\ Recv
  /\ IF RecvOk
     THEN first' = RecvPath /\ pc' = "isTerminal" /\ UNCHANGED result
     ELSE pc' = "returned" /\ result' = Outcome("no matches", <<>>) /\ UNCHANGED first
  /\ UNCHANGED <<idleDriver, pickerVars>>

\* term.IsTerminal(fd): the input is a terminal or the session fails.
IsTerminal ==
  /\ pc = "isTerminal"
  /\ IF stdinTerminal THEN pc' = "makeRaw" /\ UNCHANGED result
     ELSE pc' = "returned" /\ result' = Outcome("no terminal", <<>>)
  /\ UNCHANGED <<envVars, iterVars, received, first, idleDriver, pickerVars>>

\* term.MakeRaw(fd); on success the picker is created with the first result,
\* the reader goroutine is started and the loop is entered.
MakeRaw ==
  /\ pc = "makeRaw"
  /\ \E rawOk \in BOOLEAN :
       IF rawOk
       THEN /\ pc' = "loop"
            /\ allResults' = AppendResult(allResults, first)
            /\ filtered' = <<0>>
            /\ searching' = TRUE
            /\ reader' = "reading"
            /\ UNCHANGED <<result, search, selected, offset, spinFrame>>
       ELSE /\ pc' = "returned"
            /\ result' = Outcome("raw mode failed", <<>>)
            /\ UNCHANGED <<reader, pickerVars>>
  /\ UNCHANGED <<envVars, iterVars, received, first, iterDone, dsearch, keyCh, lastOk, lastArg>>

\* The reader goroutine: a chunk or an error read from stdin goes to keyCh.
\* The user types at most MaxSearch characters of filter.
Reader ==
  /\ pc = "loop" /\ reader = "reading"
  /\ Len(keyCh) < KeyChCap
  /\ \/ \E b \in Chunks :
          /\ IsPrintable(b) => Len(dsearch) < MaxSearch
          /\ keyCh' = Append(keyCh, KeyEvent(b, FALSE))
          /\ UNCHANGED reader
     \/ /\ keyCh' = Append(keyCh, KeyEvent(<<>>, TRUE))
        /\ reader' = "exited"
  /\ UNCHANGED <<envVars, iterVars, received, pc, result, first, iterDone, dsearch, lastOk, lastArg, pickerVars>>

\* case path, ok := <-pullCh.
Pull ==
  /\ pc = "loop"
  /\ ~iterDone /\ wantMore
  /\ Recv
  /\ IF RecvOk
     THEN addResult(RecvPath) /\ UNCHANGED iterDone
     ELSE iterDone' = TRUE /\ searchDone
  /\ UNCHANGED <<pc, result, first, dsearch, keyCh, reader, lastOk, lastArg>>

\* case <-ticker.C, while the ticker runs.  spinFrame is kept modulo the
\* number of spinner frames, which is all that render reads of it.
Tick ==
  /\ pc = "loop"
  /\ ~iterDone
  /\ spinFrame' = (spinFrame + 1) % (MaxSpin + 1)
  /\ UNCHANGED <<envVars, iterVars, received, driverVars,
                 allResults, filtered, search, selected, offset, searching>>

\* case ev := <-keyCh is ready; Ev is the event it takes.
KeyReady == pc = "loop" /\ keyCh # <<>>
Ev == Head(keyCh)

\* What a key event that ends the session leaves alone.
endFrame == <<envVars, segments, sortMtime, stack, ret, chBuf, chClosed, emitted, emitFailed,
              received, first, iterDone, dsearch, reader, lastOk, lastArg, pickerVars>>

\* What a key event that edits the filter or moves the selection leaves alone.
keyFrame == <<envVars, iterVars, received, pc, result, first, iterDone, reader>>

\* if ev.err != nil.
KeyError ==
  /\ KeyReady /\ Ev.err
  /\ keyCh' = Tail(keyCh)
  /\ Close
  /\ pc' = "returned"
  /\ result' = Outcome("input error", <<>>)
  /\ UNCHANGED endFrame

KeyEscape ==
  /\ KeyReady /\ ~Ev.err /\ IsEscape(Ev.b)
  /\ keyCh' = Tail(keyCh)
  /\ Close
  /\ pc' = "returned"
  /\ result' = Outcome("cancelled", <<>>)
  /\ UNCHANGED endFrame

KeyEnter ==
  /\ KeyReady /\ ~Ev.err /\ ~IsEscape(Ev.b) /\ IsEnter(Ev.b)
  /\ keyCh' = Tail(keyCh)
  /\ Close
  /\ pc' = "returned"
  /\ result' = Outcome("selected", getSelection)
  /\ UNCHANGED endFrame

KeyBackspace ==
  /\ KeyReady /\ ~Ev.err /\ ~IsEscape(Ev.b) /\ ~IsEnter(Ev.b) /\ IsBackspace(Ev.b)
  /\ keyCh' = Tail(keyCh)
  /\ IF Len(dsearch) > 0
     THEN /\ dsearch' = Upto(dsearch, Len(dsearch) - 1)
          /\ setSearch(dsearch')
          /\ lastOk' = setSearchOk(dsearch')
          /\ lastArg' = <<dsearch'>>
     ELSE UNCHANGED <<dsearch, lastOk, lastArg, pickerVars>>
  /\ UNCHANGED keyFrame

KeyUp ==
  /\ KeyReady /\ ~Ev.err /\ IsUp(Ev.b)
  /\ keyCh' = Tail(keyCh)
  /\ moveUp
  /\ UNCHANGED <<keyFrame, dsearch, lastOk, lastArg>>

KeyDown ==
  /\ KeyReady /\ ~Ev.err /\ ~IsUp(Ev.b) /\ IsDown(Ev.b)
  /\ keyCh' = Tail(keyCh)
  /\ moveDown
  /\ UNCHANGED <<keyFrame, dsearch, lastOk, lastArg>>

KeyPrintable ==
  /\ KeyReady /\ ~Ev.err
  /\ ~IsEscape(Ev.b) /\ ~IsEnter(Ev.b) /\ ~IsBackspace(Ev.b) /\ IsPrintable(Ev.b)
  /\ keyCh' = Tail(keyCh)
  /\ LET candidate == Append(dsearch, Chr(Ev.b[1]))
     IN  /\ dsearch' = IF setSearchOk(candidate) THEN candidate ELSE dsearch
         /\ setSearch(candidate)
         /\ lastOk' = setSearchOk(candidate)
         /\ lastArg' = <<candidate>>
  /\ UNCHANGED keyFrame

\* A chunk that no case of the switch takes.
KeyIgnored ==
  /\ KeyReady /\ ~Ev.err
  /\ ~IsEscape(Ev.b) /\ ~IsEnter(Ev.b) /\ ~IsBackspace(Ev.b)
  /\ ~IsUp(Ev.b) /\ ~IsDown(Ev.b) /\ ~IsPrintable(Ev.b)
  /\ keyCh' = Tail(keyCh)
  /\ UNCHANGED <<keyFrame, dsearch, lastOk, lastArg, pickerVars>>

Next ==
  \/ GoLoop \/ SegsEntry \/ SegsResume \/ LeafEntry \/ Emit \/ LeafDone
  \/ First \/ IsTerminal \/ MakeRaw \/ Reader \/ Pull \/ Tick
  \/ KeyError \/ KeyEscape \/ KeyEnter \/ KeyBackspace \/ KeyUp \/ KeyDown
  \/ KeyPrintable \/ KeyIgnored

Spec == Init /\ [][Next]_vars

\* The session under the scheduling the Go runtime gives: a goroutine that
\* can run does run (the producer), and select chooses at random among the
\* cases that are ready, so a pull that stays ready is taken in the end.
LiveSpec == Init /\ [][Next]_vars /\ WF_vars(Producer) /\ WF_vars(Pull)

(***************************************************************************)
(* The pure matchers called on their own: matchWild (search.go) and the    *)
(* legacy fuzzy matcher match (main.go).  No iterator and no session runs; *)
(* call holds the arguments and then the result of one call.                *)
(***************************************************************************)
\* main.go match1: every character of query is looked for from the position
\* of the previous hit on (path = path[i:] keeps the character that was hit).
RECURSIVE match1(_, _)
match1(query, path) ==
  IF query = <<>> THEN TRUE
  ELSE LET i == Index(path, <<Head(query)>>)
       IN  IF i < 0 THEN FALSE ELSE match1(Tail(query), From(path, i))

\* The loops of main.go match: each part of the query takes the first of
\* the remaining path elements that match1 accepts.
RECURSIVE MatchParts(_, _)
MatchParts(qs, ps) ==
  IF qs = <<>> THEN TRUE
  ELSE LET hits == {k \in 1..Len(ps) : match1(qs[1], ps[k])}
       IN  IF hits = {} THEN FALSE
           ELSE LET k == CHOOSE h \in hits : \A g \in hits : h <= g
                IN  MatchParts(Tail(qs), From(ps, k))

\* main.go match.
match(query, path) == MatchParts(Split(query, Slash), Split(path, Slash))

\* All the strings over a set of characters, up to a length.
RECURSIVE Strings(_, _)
Strings(chars, n) ==
  IF n = 0 THEN {<<>>}
  ELSE LET shorter == Strings(chars, n - 1)
       IN  shorter \cup {Append(t, c) : t \in shorter, c \in chars}

\* The fragments the patterns of a call are made of, and the patterns: up
\* to three markers, and patterns in which a dot stands next to a marker.
Fragments == Strings({"a", "b"}, 1) \cup {<<"a", "b">>, <<"b", "a">>, <<"a", "a">>}

WildCallPatterns ==
  Fragments
  \cup {f \o Dots \o g : f, g \in Fragments}
  \cup {f \o Dots \o g \o Dots \o h : f, g, h \in Fragments}
  \cup {Dots \o g \o Dots \o h \o Dots : g, h \in Fragments}
  \cup {<<"a">> \o Dots \o g \o Dots \o h \o Dots \o <<"b">> : g, h \in Fragments}
  \cup { <<".">> \o Dots, <<"a", ".">> \o Dots \o <<"b">>, <<".", "a">> \o Dots,
         <<"a", ".", "b">>, <<"a">> \o Dots \o Dots \o <<"b">> }

WildCallNames ==
  Strings({"a", "b"}, MaxName)
  \cup { <<".">>, <<"a", ".", "b">>, <<".", "a">>, <<"a", ".">>, <<"a", ".", ".", "b">> }

\* One call f(a, b) and its result: "pending" before the call has run.
Call2(fn, a, b) == [fn |-> fn, a |-> a, b |-> b, result |-> "pending"]

BoolStr(v) == IF v THEN "true" ELSE "false"

\* No iterator has been created.
NoIter ==
  /\ segments = <<>> /\ sortMtime = FALSE /\ stack = <<>> /\ ret = "none"
  /\ chBuf = <<>> /\ chClosed = FALSE /\ doneClosed = FALSE
  /\ emitted = <<>> /\ received = <<>> /\ emitFailed = FALSE

MatchWildInit ==
  /\ call \in {Call2("matchWild", p, n) : p \in WildCallPatterns, n \in WildCallNames}
  /\ NoIter /\ pc = "call" /\ NoDriver /\ NoPicker /\ stdinTerminal = TRUE

\* matchWild(pattern, name) runs.
CallMatchWild ==
  /\ call.fn = "matchWild" /\ call.result = "pending"
  /\ call' = [call EXCEPT !.result = BoolStr(matchWild(call.a, call.b))]
  /\ UNCHANGED <<iterVars, received, driverVars, pickerVars, stdinTerminal>>

MatchWildSpec == MatchWildInit /\ [][CallMatchWild]_vars

MatchInit ==
  /\ call \in {Call2("match", q, p) : q \in Strings({"a", "b", "/"}, MaxQuery),
                                      p \in Strings({"a", "b", "/"}, MaxPath)}
  /\ NoIter /\ pc = "call" /\ NoDriver /\ NoPicker /\ stdinTerminal = TRUE

\* match(query, path) runs.
CallMatch ==
  /\ call.fn = "match" /\ call.result = "pending"
  /\ call' = [call EXCEPT !.result = BoolStr(match(call.a, call.b))]
  /\ UNCHANGED <<iterVars, received, driverVars, pickerVars, stdinTerminal>>

MatchSpec == MatchInit /\ [][CallMatch]_vars

(***************************************************************************)
(* Properties.                                                              *)
(***************************************************************************)
IsPrefix(s, t) == Len(s) <= Len(t) /\ Upto(t, Len(s)) = s

\* The indices of the results whose display path contains s, whatever the
\* case (every index when s is empty), as a set and in increasing order.
MatchingIndices(all, s) ==
  {i \in 0..(Len(all) - 1) :
     s = <<>> \/ Contains(ToLower(displayPath(all[i + 1])), ToLower(s))}

RECURSIVE Ascending(_)
Ascending(S) ==
  IF S = {} THEN <<>>
  ELSE LET m == CHOOSE x \in S : \A y \in S : x <= y
       IN  <<m>> \o Ascending(S \ {m})

FreshFilter(all, s) == Ascending(MatchingIndices(all, s))

\* The steps of the driver loop that call setSearch, and the string they pass.
PrintableCall ==
  KeyReady /\ ~Ev.err /\ IsPrintable(Ev.b) /\ keyCh' = Tail(keyCh)
BackspaceCall ==
  KeyReady /\ ~Ev.err /\ IsBackspace(Ev.b) /\ Len(dsearch) > 0 /\ keyCh' = Tail(keyCh)
SetSearchArg ==
  IF IsPrintable(Ev.b) THEN Append(dsearch, Chr(Ev.b[1]))
  ELSE Upto(dsearch, Len(dsearch) - 1)

\* C1: rendezvous backpressure.  In every state of one searchIter the paths
\* for which emit has returned true are exactly the paths the consumer has
\* received, and no path is buffered in the channel: the producer is ahead of
\* the consumer by at most the path it is blocked on.
C1_RendezvousBackpressure ==
  /\ emitted = received
  /\ chBuf = <<>>

\* The producer is blocked in emit again after the consumer took two paths.
C1_Witness == Len(received) >= 2 /\ InEmit /\ ~doneClosed

\* C2: order preservation.  At every point of an interactive session
\* allResults is a prefix of the sequence of emitted paths, and once the
\* picker exists it is the whole sequence: nothing is dropped, duplicated or
\* reordered between emit and addResult, the first result included.
C2_OrderPreserved ==
  /\ IsPrefix(allResults, emitted)
  /\ reader # "off" => allResults = emitted

\* The picker holds results of three directories.
C2_Witness == reader # "off" /\ Len(allResults) > 2 * FilesPerDir

\* C3: cancellation stops the producer.  Once an emit has returned false no
\* further path is emitted, every step of the producer returns from one
\* frame (no call is made, so no directory is entered), the value returned at
\* each level is false, and the goroutine ends by closing the channel.
C3_CancellationStops ==
  /\ [][emitFailed => /\ emitted' = emitted
                      /\ stack' # stack => stack' = Upto(stack, Len(stack) - 1)]_vars
  /\ [](emitFailed /\ stack # <<>> => ret = "false")
  /\ emitFailed ~> chClosed

\* A walk cancelled after its first emit and before its last has ended.
C3_Witness ==
  /\ emitFailed /\ chClosed
  /\ Len(emitted) >= 1
  /\ Len(emitted) < Len(allPathsOf[segments, sortMtime])

\* C4: every session-ending key event requests cancellation.  When runPicker
\* has returned because of Enter, Escape or a read error, it.done is closed,
\* so that a producer blocked in emit can return.
C4_ExitCloses ==
  (pc = "returned" /\ result.kind \in {"selected", "cancelled", "input error"})
    => /\ doneClosed
       /\ InEmit => "done" \in EmitReady

\* The session ended by a read error while the producer was blocked in emit.
C4_Witness == pc = "returned" /\ result.kind = "input error" /\ InEmit

\* C5: end of stream.  A consumer that keeps calling Next and never cancels
\* has received every path of the traversal, in order, when Next returns
\* more = false; the channel is closed exactly when the goroutine has ended;
\* and more = false is eventually returned.
C5_EndOfStream ==
  /\ [](pc = "end" /\ ~doneClosed => received = allPathsOf[segments, sortMtime])
  /\ [](chClosed <=> stack = <<>>)
  /\ <>(doneClosed \/ pc = "end")

\* The client saw the end of a walk that matched in every populated directory.
C5_Witness == pc = "end" /\ ~doneClosed /\ Len(received) >= 4 * FilesPerDir

\* C6: filter consistency.  filtered is always the increasing list of the
\* indices of allResults whose display path contains the picker's search,
\* whatever the case: the filter computed afresh.
C6_FilterConsistent == filtered = FreshFilter(allResults, search)

\* Results arrived under a filter that admits some and not others, and the
\* walk has ended.
C6_Witness ==
  /\ ~searching /\ search # <<>>
  /\ Len(filtered) >= 1 /\ Len(filtered) < Len(allResults)
  /\ Len(allResults) >= 4 * FilesPerDir

\* C7: selection range.  0 <= selected, and selected < len(filtered) when
\* filtered is not empty.
C7_SelectionInRange ==
  /\ 0 <= selected
  /\ filtered # <<>> => selected < Len(filtered)

\* The selection is on the last row of a filtered list.
C7_Witness == search # <<>> /\ selected > 0 /\ selected = Len(filtered) - 1

\* C8: window.  0 <= offset <= selected < offset + maxVisible, and the
\* selected row is one of the rows render draws.
C8_WindowInvariant ==
  /\ 0 <= offset /\ offset <= selected /\ selected < offset + maxVisible
  /\ filtered # <<>> => selected \in renderedRows

\* The list has scrolled.
C8_Witness == offset > 0 /\ selected = offset + maxVisible - 1

C10_AcceptedResets ==
  [][((PrintableCall \/ BackspaceCall) /\ lastOk') => (selected' = 0 /\ offset' = 0)]_vars

\* C11: clearing the filter always succeeds.  Every call setSearch("") of a
\* session, while the walk runs or after it has ended, returns true and
\* leaves search empty and filtered = [0, 1, ..., len(allResults)-1].
C11_ClearSucceeds ==
  [][(BackspaceCall /\ SetSearchArg = <<>>) =>
       /\ lastOk'
       /\ search' = <<>>
       /\ allResults' = allResults
       /\ Len(filtered') = Len(allResults)
       /\ \A i \in 1..Len(allResults) : filtered'[i] = i - 1]_vars

\* The filter was cleared after the walk ended, and the list is longer than
\* the window.
C11_Witness ==
  /\ lastArg = << <<>> >> /\ lastOk /\ ~searching
  /\ search = <<>> /\ Len(filtered) > maxVisible
\* The step of the driver loop that commits the selection.
EnterStep == pc = "loop" /\ pc' = "returned" /\ result'.kind = "selected"

\* C12: selection commit.  On Enter runPicker returns
\* allResults[filtered[selected]] of the picker state at that moment, or the
\* empty string exactly when filtered is empty; a returned path was received
\* from the engine and its display path contains the picker's search,
\* whatever the case; and once runPicker has returned, nothing is received
\* and neither the driver's nor the picker's state changes.
C12_SelectionCommit ==
  /\ [][EnterStep =>
         result'.sel = IF filtered = <<>> THEN <<>>
                       ELSE allResults[filtered[selected + 1] + 1]]_vars
  /\ []((pc = "returned" /\ result.kind = "selected") =>
         /\ result.sel = <<>> <=> filtered = <<>>
         /\ result.sel # <<>> =>
              /\ \E i \in 1..Len(received) : received[i] = result.sel
              /\ \/ search = <<>>
                 \/ Contains(ToLower(displayPath(result.sel)), ToLower(search)))
  /\ [][pc = "returned" => UNCHANGED <<driverVars, pickerVars, received>>]_vars

\* Enter was pressed on a row below the first of a filtered list.
C12_Witness ==
  /\ pc = "returned" /\ result.kind = "selected" /\ result.sel # <<>>
  /\ search # <<>> /\ selected > 0 /\ filtered[selected + 1] > selected
\* C13: terminal precondition.  Whenever standard input is not a terminal,
\* runPicker returns the no-terminal error and no picker has been shown,
\* whatever the engine produces.
C13_NoTerminalError ==
  (~stdinTerminal /\ pc = "returned") =>
     /\ result.kind = "no terminal"
     /\ allResults = <<>> /\ reader = "off"

\* C14: hidden entries are never matched.  No emitted path has a
\* dot-prefixed component below its root, whatever kind of segment selected
\* the component.
C14_HiddenNeverMatched ==
  \A i \in 1..Len(emitted) :
    \A k \in 2..Len(emitted[i]) : ~HasPrefix(emitted[i][k], <<".">>)
\* The files below root r that a recursive search for the leaf pattern p is
\* to find: no component below r is hidden, every directory on the way can
\* be listed, and the name satisfies matchWild.
RecursiveMatches(r, p) ==
  IF Stat(r) # "dir" THEN {}
  ELSE {f \in Files :
          /\ Len(f) > Len(r) /\ Upto(f, Len(r)) = r
          /\ \A k \in (Len(r) + 1)..Len(f) : ~HasPrefix(f[k], <<".">>)
          /\ \A k \in Len(r)..(Len(f) - 1) : ~ReadDirFails(Upto(f, k))
          /\ matchWild(p, f[Len(f)])}

\* The raw patterns of one component that begins with the marker.
RecursiveLeafPatterns ==
  {raw \in Patterns : Len(Split(raw, Slash)) = 1 /\ HasPrefix(raw, Dots)}

\* C15: recursive matching at any depth, zero included.  For a pattern of
\* one component that begins with "..." ("...o", or "..." alone), when the
\* walk has ended without cancellation the set of paths received under each
\* root is the set of all non-hidden files, in the root itself or in any
\* directory below it reached through non-hidden directories, whose name
\* satisfies matchWild.
C15_RecursiveAnyDepth ==
  \A raw \in RecursiveLeafPatterns :
    (pc = "end" /\ ~doneClosed /\ segments = parsePattern(raw)) =>
      \A n \in 1..Len(Roots) :
        {received[i] : i \in {j \in 1..Len(received) :
                                Upto(received[j], Len(Roots[n])) = Roots[n]}}
          = RecursiveMatches(Roots[n], raw)

\* The walk for "...o" has ended with files of the root itself and files
\* three levels down.
C15_Witness ==
  /\ pc = "end" /\ ~doneClosed /\ segments = parsePattern(Dots \o <<"o">>)
  /\ \E i, j \in 1..Len(received) : Len(received[i]) = 2 /\ Len(received[j]) = 4
\* The position of the root of an absolute path in the list of roots.
RootIndex(p) == CHOOSE n \in 1..Len(Roots) : Roots[n] = Upto(p, Len(Roots[n]))

\* The directory that holds the file p.
Parent(p) == Upto(p, Len(p) - 1)

\* The order of a recursive walk on two files p # q of one root, c being
\* the length of their longest common directory prefix: a file of the
\* common directory itself comes before a file of one of its subtrees, two
\* files of the common directory come in name order, and files of two
\* subtrees come in the name order of the two subdirectories.
WalkBefore(p, q) ==
  LET c == CommonLen(Parent(p), Parent(q))
  IN  IF Len(p) = c + 1
      THEN Len(q) > c + 1 \/ StrLess(p[c + 1], q[c + 1])
      ELSE Len(q) > c + 1 /\ StrLess(p[c + 1], q[c + 1])

RECURSIVE Selects(_, _)
Selects(segs, comps) ==
  IF segs = <<>> \/ comps = <<>> THEN FALSE
  ELSE LET seg == segs[1]
           name == comps[1]
           fits == IF Contains(seg.pattern, Dots)
                   THEN ~HasPrefix(name, <<".">>) /\ matchWild(seg.pattern, name)
                   ELSE name = seg.pattern
       IN  IF seg.kind = segRecursive
           THEN \/ Selects(Tail(segs), comps)
                \/ /\ Len(comps) >= 2 /\ ~HasPrefix(name, <<".">>)
                   /\ Selects(segs, Tail(comps))
           ELSE IF Len(segs) = 1 THEN Len(comps) = 1 /\ fits
           ELSE Len(comps) >= 2 /\ fits /\ Selects(Tail(segs), Tail(comps))

\* The matches of the tree without its failing nodes: the files the pattern
\* selects under a root that is a directory, not below a directory whose
\* listing fails.
MatchesWithoutFailingNodes(segs) ==
  {f \in Files :
     /\ Stat(Upto(f, 1)) = "dir" /\ \E n \in 1..Len(Roots) : Roots[n] = Upto(f, 1)
     /\ \A k \in 1..(Len(f) - 1) : Upto(f, k) \notin Unreadable
     /\ Selects(segs, From(f, 1))}

matchesWithoutFailingNodes == [sg \in AllSegments |-> MatchesWithoutFailingNodes(sg)]

\* C17: I/O failures are absorbed per branch.  No frame returns false
\* unless an emit was cancelled, and when the goroutine has closed the
\* channel without cancellation the emitted paths are the matches of the
\* tree with the failing nodes (a missing root, a directory whose listing
\* fails) taken out: the failing node contributes nothing and every match of
\* its siblings and of the later roots is emitted.
C17_FailuresAbsorbed ==
  /\ ret = "false" => emitFailed
  /\ (chClosed /\ ~emitFailed) =>
       {emitted[i] : i \in 1..Len(emitted)} = matchesWithoutFailingNodes[segments]

\* An uncancelled walk has ended with matches of a directory that comes
\* after a sibling whose listing fails, and of a root that comes after a
\* missing root.
C17_Witness ==
  /\ chClosed /\ ~emitFailed
  /\ \E i \in 1..Len(emitted) : \E u \in Unreadable :
       LET dir == Parent(emitted[i])
       IN  /\ Len(dir) = Len(u) /\ Parent(dir) = Parent(u)
           /\ StrLess(u[Len(u)], dir[Len(dir)])
  /\ \E i \in 1..Len(emitted) : \E n \in 1..Len(Roots) :
       Stat(Roots[n]) = "err" /\ RootIndex(emitted[i]) > n
\* name = frs[1] \o s \o ... for a string s that is chosen freely before
\* every fragment of frs, the last fragment ending the name.
RECURSIVE FragmentsFit(_, _)
FragmentsFit(frs, str) ==
  \E k \in 0..Len(str) :
    LET after == From(str, k)
    IN  IF Len(frs) = 1 THEN after = frs[1]
        ELSE /\ HasPrefix(after, frs[1])
             /\ FragmentsFit(Tail(frs), From(after, Len(frs[1])))

\* name = f0 \o s1 \o f1 \o ... \o sn \o fn for some strings s1 .. sn.
Decomposes(frs, name) ==
  IF Len(frs) = 1 THEN name = frs[1]
  ELSE HasPrefix(name, frs[1]) /\ FragmentsFit(Tail(frs), From(name, Len(frs[1])))

\* C18: matchWild is a complete wildcard matcher.  matchWild(pattern, name)
\* is true iff name = f0 s1 f1 ... sn fn for the fragments f0 .. fn that
\* splitting the pattern on "..." gives and arbitrary strings s1 .. sn; with
\* no marker it is equality, and with the two fragments a and b of "a...b"
\* it holds iff name starts with a, ends with b and is at least as long as
\* a and b together.
C18_MatchWildComplete ==
  (call.fn = "matchWild" /\ call.result # "pending") =>
    LET frs == Split(call.a, Dots)
        name == call.b
        said == call.result = "true"
    IN  /\ said <=> Decomposes(frs, name)
        /\ Len(frs) = 1 => (said <=> call.a = name)
        /\ Len(frs) = 2 =>
             (said <=> /\ HasPrefix(name, frs[1]) /\ HasSuffix(name, frs[2])
                      /\ Len(name) >= Len(frs[1]) + Len(frs[2]))

\* matchWild accepted a name in which the first occurrence of a middle
\* fragment had to be taken for a later fragment to fit.
C18_Witness ==
  /\ call.fn = "matchWild" /\ call.result = "true"
  /\ call.a = Dots \o <<"a">> \o Dots \o <<"b">> \o Dots
  /\ call.b = <<"a", "b", "a">>

\* The characters of q appear in e in the same order, each at an occurrence
\* of its own.
RECURSIVE IsSubsequence(_, _)
IsSubsequence(q, e) ==
  \/ q = <<>>
  \/ /\ e # <<>>
     /\ \/ q[1] = e[1] /\ IsSubsequence(Tail(q), Tail(e))
        \/ IsSubsequence(q, Tail(e))

\* The parts qs can be assigned in order to elements of ps at strictly
\* increasing positions, each part a subsequence of its element.
RECURSIVE Assigns(_, _)
Assigns(qs, ps) ==
  \/ qs = <<>>
  \/ \E k \in 1..Len(ps) : IsSubsequence(qs[1], ps[k]) /\ Assigns(Tail(qs), From(ps, k))

\* C19: the legacy fuzzy matcher.  match(query, path) is true iff the parts
\* of the query can be assigned, in order, to path elements at strictly
\* increasing positions, each part being a subsequence of its element (a
\* repeated character needs as many occurrences).
C19_FuzzySubsequence ==
  (call.fn = "match" /\ call.result # "pending") =>
    (call.result = "true" <=> Assigns(Split(call.a, Slash), Split(call.b, Slash)))
\* A step of the driver loop that takes the pull case of its select.
PullStep == pc = "loop" /\ (received' # received \/ iterDone' # iterDone)

\* C20: pull gating and idle progress.  The driver loop receives from the
\* result channel only in an iteration in which selected + maxVisible >=
\* len(filtered) and exhaustion has not been seen; and whenever that holds in
\* the loop, the next result is received or exhaustion is observed, unless
\* a key event arrives first: ticks do not starve the pull.  (A result is
\* received when the parity of the number of results received changes.)
C20_PullGatingAndProgress ==
  /\ [][PullStep => (selected + maxVisible >= Len(filtered) /\ ~iterDone)]_vars
  /\ \A odd \in {0, 1} :
       (pc = "loop" /\ ~iterDone /\ selected + maxVisible >= Len(filtered)
          /\ Len(received) % 2 = odd)
         ~> (Len(received) % 2 # odd \/ iterDone \/ keyCh # <<>> \/ pc # "loop")

\* The loop has stopped pulling with results left, and a later Down key has
\* made it pull again.
C20_Witness ==
  /\ pc = "loop" /\ ~iterDone /\ selected > 0
  /\ Len(filtered) = selected + maxVisible + 1 /\ Len(received) > maxVisible + 1
\* C21: driver/picker search agreement.  In the driver loop, after every
\* key event and in any interleaving with results and exhaustion, the
\* loop's local search buffer equals the picker's search field.
C21_SearchAgreement == pc = "loop" => dsearch = search

\* C22: the producer is never abandoned.  Whenever runPicker has returned,
\* on whatever path, a producer goroutine that is blocked in emit has the
\* cancellation signal to return on: it is not left with no consumer and
\* it.done open.
C22_ProducerNotAbandoned == (pc = "returned" /\ InEmit) => doneClosed
\* C23: no duplicate emissions.  For any compiled pattern, patterns with
\* more than one Recursive segment included, the traversal emits each file
\* path at most once.  (No file lies under two roots, so a path emitted
\* twice is emitted twice for a single root.)
C23_NoDuplicateEmissions ==
  \A i, j \in 1..Len(emitted) : emitted[i] = emitted[j] => i = j
\* C24: non-empty list after completion.  In every state of the driver
\* loop where the engine has been exhausted (searching = false), filtered
\* is non-empty, a filter accepted speculatively before the exhaustion
\* included, so that Enter returns a path and not the empty string.
C24_NonEmptyWhenFinished == (pc = "loop" /\ ~searching) => filtered # <<>>

====
